---- MODULE Spec2Model ----
(***************************************************************************)
(* A model of the PDF-to-book pipeline (parsePdfToBook and its two phases, *)
(* the resilient JSON decoder and the chunker) and of the processing queue *)
(* of the App component that drives it.                                    *)
(***************************************************************************)
EXTENDS Integers, Sequences, FiniteSets, TLC

\* One run of parsePdfToBook: the scenario (the file and the behaviour of the
\* model service), the place the run has reached, and its locals.
VARIABLES scenario, pc, reports, requests, outcome,
          totalPages, images, imageContext, stream, fullText, nFrags,
          rawData, lines, lineIdx, currentChunk, chunks,
          i, response, refinedPages, currentPageOffset, origin,
          queue, isProcessing, flights, store, nextId,
          appState, currentBook, currentPageIndex, shownPageIndex, keysSinceRender

(***************************************************************************)
(* JavaScript strings.  A string is a run-length encoded sequence of       *)
(* characters: a sequence of runs [c, n], n >= 1, neighbouring runs with   *)
(* different c.  c is one character, or a literal word (a key, a title)    *)
(* that is only ever compared as a whole.                                  *)
(***************************************************************************)
Run(c, n) == [c |-> c, n |-> n]

EmptyStr == <<>>

S(w) == <<Run(w, 1)>>

NL == "\n"

Newline == <<Run(NL, 1)>>

Min(a, b) == IF a < b THEN a ELSE b

\* s + t
Concat(s, t) ==
  IF s = <<>> THEN t
  ELSE IF t = <<>> THEN s
  ELSE IF s[Len(s)].c = t[1].c
       THEN SubSeq(s, 1, Len(s) - 1)
              \o <<Run(t[1].c, s[Len(s)].n + t[1].n)>> \o Tail(t)
       ELSE s \o t

\* s.length
RECURSIVE StrLen(_)
StrLen(s) == IF s = <<>> THEN 0 ELSE s[1].n * Len(s[1].c) + StrLen(Tail(s))

\* s.split('\n'): the lines of s, at least one; computed by halving so that
\* long texts stay within the evaluator's stack.
RECURSIVE Split(_)
Split(s) ==
  IF s = <<>> THEN << <<>> >>
  ELSE IF Len(s) = 1
       THEN IF s[1].c = NL THEN [ix \in 1..(s[1].n + 1) |-> <<>>] ELSE <<s>>
       ELSE LET h == Len(s) \div 2
                l == Split(SubSeq(s, 1, h))
                r == Split(SubSeq(s, h + 1, Len(s)))
            IN  SubSeq(l, 1, Len(l) - 1) \o <<l[Len(l)] \o r[1]>> \o Tail(r)

\* line.startsWith('#')
StartsWithHash(line) == line # <<>> /\ line[1].c = "#"

WhiteSpace == {" ", "\t", NL}

\* line.trim() === ''
TrimIsEmpty(line) == \A k \in 1..Len(line) : line[k].c \in WhiteSpace

(***************************************************************************)
(* JavaScript values, as JSON.parse builds them.                           *)
(***************************************************************************)
Undefined == [t |-> "undefined"]
Null == [t |-> "null"]
JStr(s) == [t |-> "str", s |-> s]
JNum(n) == [t |-> "num", n |-> n]
JBool(b) == [t |-> "bool", b |-> b]
JArr(a) == [t |-> "arr", a |-> a]
JObj(m) == [t |-> "obj", m |-> m]

\* o[key] of an object built by JSON.parse: the last member of that name
HasKey(o, key) == \E k \in 1..Len(o.m) : o.m[k].key = key
Member(o, key) ==
  o.m[CHOOSE k \in 1..Len(o.m) :
        o.m[k].key = key /\ \A j \in (k + 1)..Len(o.m) : o.m[j].key # key].val

\* v.key for any value v that is neither null nor undefined
Get(v, key) ==
  IF v.t = "obj" /\ HasKey(v, S(key)) THEN Member(v, S(key)) ELSE Undefined

\* reading a property of null or undefined throws a TypeError
Nullish(v) == v.t \in {"null", "undefined"}

\* the truth value of v in a condition
Truthy(v) ==
  CASE v.t = "undefined" -> FALSE
    [] v.t = "null" -> FALSE
    [] v.t = "str" -> v.s # EmptyStr
    [] v.t = "num" -> v.n # 0
    [] v.t = "bool" -> v.b
    [] OTHER -> TRUE

(***************************************************************************)
(* Thrown values.                                                          *)
(***************************************************************************)
Err(name, message) == [name |-> name, message |-> message]

SyntaxError(message) == Err("SyntaxError", message)
TypeError == Err("TypeError", "Cannot read properties of undefined")
NoError == Err("", "")

(***************************************************************************)
(* JSON text.  A text is a sequence of tokens: punctuation, string         *)
(* literals, numbers, the literals null/true/false, white space, markdown  *)
(* fences, and "cut", a token that the end of the text truncated.          *)
(***************************************************************************)
P(ch) == [k |-> "p", v |-> ch]
StrTok(s) == [k |-> "s", v |-> s]
NumTok(n) == [k |-> "n", v |-> n]
LitTok(w) == [k |-> "l", v |-> w]
WsTok == [k |-> "w", v |-> " "]
\* the opening fence with its json tag, and the bare fence (three backticks)
FenceJson == [k |-> "f", v |-> "fence json"]
Fence == [k |-> "f", v |-> "fence"]
CutTok == [k |-> "c", v |-> "cut"]

IsP(tok, ch) == tok.k = "p" /\ tok.v = ch
IsStrTok(tok, s) == tok.k = "s" /\ tok.v = s
IsFence(tok, f) == tok.k = "f" /\ tok.v = f

\* the first position from ix on that holds no white space (Len(t) + 1: none)
SkipWs(t, ix) ==
  CHOOSE j \in ix..(Len(t) + 1) :
    /\ j = Len(t) + 1 \/ t[j].k # "w"
    /\ \A h \in ix..(j - 1) : t[h].k = "w"

\* the last position up to ix that holds no white space (0: none)
SkipWsBack(t, ix) ==
  CHOOSE j \in 0..ix :
    /\ j = 0 \/ t[j].k # "w"
    /\ \A h \in (j + 1)..ix : t[h].k = "w"

\* a parse that failed at position ix
ParseFail(ix) == [ok |-> FALSE, v |-> Undefined, ix |-> ix]
ParseOk(v, ix) == [ok |-> TRUE, v |-> v, ix |-> ix]

LitValue(w) ==
  CASE w = "null" -> Null
    [] w = "true" -> JBool(TRUE)
    [] OTHER -> JBool(FALSE)

RECURSIVE ParseValue(_, _), ParseMembers(_, _, _), ParseElements(_, _, _)

\* one JSON value starting at or after position i0
ParseValue(t, i0) ==
  LET ix == SkipWs(t, i0) IN
  IF ix > Len(t) THEN ParseFail(ix)
  ELSE CASE t[ix].k = "s" -> ParseOk(JStr(t[ix].v), ix + 1)
         [] t[ix].k = "n" -> ParseOk(JNum(t[ix].v), ix + 1)
         [] t[ix].k = "l" -> ParseOk(LitValue(t[ix].v), ix + 1)
         [] IsP(t[ix], "{") -> ParseMembers(t, ix + 1, <<>>)
         [] IsP(t[ix], "[") -> ParseElements(t, ix + 1, <<>>)
         [] OTHER -> ParseFail(ix)

\* the members of an object, after its "{" or after a ","
ParseMembers(t, i0, acc) ==
  LET ix == SkipWs(t, i0) IN
  IF ix > Len(t) THEN ParseFail(ix)
  ELSE IF IsP(t[ix], "}") /\ acc = <<>> THEN ParseOk(JObj(acc), ix + 1)
  ELSE IF t[ix].k # "s" THEN ParseFail(ix)
  ELSE LET c == SkipWs(t, ix + 1) IN
       IF c > Len(t) \/ ~IsP(t[c], ":") THEN ParseFail(c)
       ELSE LET r == ParseValue(t, c + 1) IN
            IF ~r.ok THEN r
            ELSE LET e == SkipWs(t, r.ix)
                     acc2 == Append(acc, [key |-> t[ix].v, val |-> r.v])
                 IN  IF e > Len(t) THEN ParseFail(e)
                     ELSE IF IsP(t[e], "}") THEN ParseOk(JObj(acc2), e + 1)
                     ELSE IF IsP(t[e], ",")
                          THEN LET n == SkipWs(t, e + 1) IN
                               IF n > Len(t) \/ t[n].k # "s" THEN ParseFail(n)
                               ELSE ParseMembers(t, n, acc2)
                          ELSE ParseFail(e)

\* the elements of an array, after its "[" or after a ","
ParseElements(t, i0, acc) ==
  LET ix == SkipWs(t, i0) IN
  IF ix > Len(t) THEN ParseFail(ix)
  ELSE IF IsP(t[ix], "]") /\ acc = <<>> THEN ParseOk(JArr(acc), ix + 1)
  ELSE LET r == ParseValue(t, ix) IN
       IF ~r.ok THEN r
       ELSE LET e == SkipWs(t, r.ix)
                acc2 == Append(acc, r.v)
            IN  IF e > Len(t) THEN ParseFail(e)
                ELSE IF IsP(t[e], "]") THEN ParseOk(JArr(acc2), e + 1)
                ELSE IF IsP(t[e], ",")
                     THEN LET n == SkipWs(t, e + 1) IN
                          IF n > Len(t) \/ IsP(t[n], "]") THEN ParseFail(n)
                          ELSE ParseElements(t, n, acc2)
                     ELSE ParseFail(e)

\* the SyntaxError of a parse that stopped at position ix: the text ended
\* there (or in the middle of the token there), or the token there is not
\* one that may stand there
ParseError(t, ix) ==
  IF ix > Len(t) \/ t[ix].k = "c"
  THEN SyntaxError("Unexpected end of JSON input")
  ELSE SyntaxError("Unexpected token in JSON")

\* a parsed value must be followed by nothing but white space
WholeText(t, r) ==
  IF r.ok /\ SkipWs(t, r.ix) > Len(t)
  THEN [ok |-> TRUE, v |-> r.v, err |-> NoError]
  ELSE [ok |-> FALSE, v |-> Undefined,
        err |-> ParseError(t, IF r.ok THEN SkipWs(t, r.ix) ELSE r.ix)]

\* JSON.parse(t): the value, or a SyntaxError
JsonParse(t) == WholeText(t, ParseValue(t, 1))

(***************************************************************************)
(* robustJsonParse.  Positions are token positions, from 1; 0 stands for   *)
(* the -1 of indexOf and lastIndexOf.  The searched patterns are matched   *)
(* on the structure of the text: the string literal "pages", an object     *)
(* close followed at once by a comma, an object close.                     *)
(***************************************************************************)
PagesKey == S("pages")

\* jsonString.replace(/^```json\s*/, '')
StripFenceJson(t) ==
  IF t # <<>> /\ IsFence(t[1], "fence json")
  THEN SubSeq(t, SkipWs(t, 2), Len(t)) ELSE t

\* .replace(/^```\s*/, '')
StripFenceOpen(t) ==
  IF t # <<>> /\ IsFence(t[1], "fence")
  THEN SubSeq(t, SkipWs(t, 2), Len(t)) ELSE t

\* .replace(/\s*```$/, '')
StripFenceClose(t) ==
  IF t # <<>> /\ IsFence(t[Len(t)], "fence")
  THEN SubSeq(t, 1, SkipWsBack(t, Len(t) - 1)) ELSE t

CleanString(jsonString) ==
  StripFenceClose(StripFenceOpen(StripFenceJson(jsonString)))

\* cleanString.indexOf('"pages"')
IndexOfPages(t) ==
  IF \E ix \in 1..Len(t) : IsStrTok(t[ix], PagesKey)
  THEN CHOOSE ix \in 1..Len(t) :
         IsStrTok(t[ix], PagesKey) /\ \A j \in 1..(ix - 1) : ~IsStrTok(t[j], PagesKey)
  ELSE 0

IsCloseComma(t, ix) == ix < Len(t) /\ IsP(t[ix], "}") /\ IsP(t[ix + 1], ",")

\* cleanString.lastIndexOf('},')
LastIndexOfCloseComma(t) ==
  IF \E ix \in 1..Len(t) : IsCloseComma(t, ix)
  THEN CHOOSE ix \in 1..Len(t) :
         IsCloseComma(t, ix) /\ \A j \in (ix + 1)..Len(t) : ~IsCloseComma(t, j)
  ELSE 0

\* cleanString.lastIndexOf('}')
LastIndexOfClose(t) ==
  IF \E ix \in 1..Len(t) : IsP(t[ix], "}")
  THEN CHOOSE ix \in 1..Len(t) :
         IsP(t[ix], "}") /\ \A j \in (ix + 1)..Len(t) : ~IsP(t[j], "}")
  ELSE 0

\* cleanString.substring(0, at + 1) + ']}'
Recovered(t, at) == SubSeq(t, 1, at) \o <<P("]"), P("}")>>

\* fault variant: the error thrown in the end is the one of the last retry
RetryThrowsLast(recoveredData, braceAfterKey, recoveredData2, direct) ==
  IF recoveredData.ok THEN recoveredData
  ELSE IF braceAfterKey THEN recoveredData2
  ELSE recoveredData

\* the inner try blocks: the parse of the text cut after the last "},", and
\* in its catch, when an object close lies after the key, the parse of the
\* text cut after the last "}"; the error thrown in the end is the first one
Retry(recoveredData, braceAfterKey, recoveredData2, direct) ==
  IF recoveredData.ok THEN recoveredData
  ELSE IF braceAfterKey /\ recoveredData2.ok THEN recoveredData2
  ELSE direct

\* the catch of the first parse
Recover(cleanString, direct, pagesIndex, lastPageEnd, lastBrace) ==
  IF pagesIndex = 0 THEN direct
  ELSE IF lastPageEnd > pagesIndex
       THEN Retry(JsonParse(Recovered(cleanString, lastPageEnd)),
                  lastBrace > pagesIndex,
                  JsonParse(Recovered(cleanString, lastBrace)),
                  direct)
       ELSE direct

TryParse(cleanString, direct) ==
  IF direct.ok THEN direct
  ELSE Recover(cleanString, direct, IndexOfPages(cleanString),
               LastIndexOfCloseComma(cleanString), LastIndexOfClose(cleanString))

ParseClean(cleanString) == TryParse(cleanString, JsonParse(cleanString))

\* the value, or the error of the first parse
robustJsonParse(jsonString) == ParseClean(CleanString(jsonString))

\* the texts robustJsonParse hands to JSON.parse, in order
ParseAttempts(cleanString) ==
  LET pagesIndex == IndexOfPages(cleanString)
      lastPageEnd == LastIndexOfCloseComma(cleanString)
      lastBrace == LastIndexOfClose(cleanString)
  IN  IF JsonParse(cleanString).ok \/ pagesIndex = 0 \/ lastPageEnd <= pagesIndex
      THEN <<cleanString>>
      ELSE IF JsonParse(Recovered(cleanString, lastPageEnd)).ok \/ lastBrace <= pagesIndex
           THEN <<cleanString, Recovered(cleanString, lastPageEnd)>>
           ELSE <<cleanString, Recovered(cleanString, lastPageEnd),
                  Recovered(cleanString, lastBrace)>>

(***************************************************************************)
(* Phase 2: the text to refine and its chunks.                             *)
(***************************************************************************)
ChunkCeiling == 15000

Digit == <<"0", "1", "2", "3", "4", "5", "6", "7", "8", "9">>

RECURSIVE NumToStr(_)
NumToStr(n) ==
  IF n < 10 THEN S(Digit[n + 1])
  ELSE Concat(NumToStr(n \div 10), S(Digit[(n % 10) + 1]))

\* the string Array.prototype.join makes of one element
RECURSIVE JoinElem(_)
JoinElem(v) ==
  CASE Nullish(v) -> EmptyStr
    [] v.t = "str" -> v.s
    [] v.t = "num" -> NumToStr(v.n)
    [] v.t = "bool" -> IF v.b THEN S("true") ELSE S("false")
    [] v.t = "arr" ->
         IF v.a = <<>> THEN EmptyStr
         ELSE IF Len(v.a) = 1 THEN JoinElem(v.a[1])
         ELSE Concat(Concat(JoinElem(v.a[1]), S(",")), JoinElem(JArr(Tail(v.a))))
    [] OTHER -> S("[object Object]")

\* a.join(sep) of strings
RECURSIVE Join(_, _)
Join(a, sep) ==
  IF a = <<>> THEN EmptyStr
  ELSE IF Len(a) = 1 THEN a[1]
  ELSE Concat(Concat(a[1], sep), Join(Tail(a), sep))

\* rawBook.pages.map(p => p.content) throws a TypeError when rawBook is null,
\* when rawBook.pages is no array, or when an element of it is null
ContentThrows(rawBook) ==
  \/ Nullish(rawBook)
  \/ Get(rawBook, "pages").t # "arr"
  \/ \E k \in 1..Len(Get(rawBook, "pages").a) : Nullish(Get(rawBook, "pages").a[k])

\* rawBook.pages.map(p => p.content).join('\n\n')
FullContent(rawBook) ==
  LET pages == Get(rawBook, "pages").a IN
  Join([k \in 1..Len(pages) |-> JoinElem(Get(pages[k], "content"))],
       <<Run(NL, 2)>>)

\* fault variant: the line that closes a chunk is not put in the next one
ChunkLineDropsBoundary(line, cur, done) ==
  IF /\ StrLen(cur) + StrLen(line) > 15000
     /\ (StartsWithHash(line) \/ TrimIsEmpty(line))
  THEN [currentChunk |-> EmptyStr, chunks |-> Append(done, cur)]
  ELSE [currentChunk |-> Concat(Concat(cur, line), Newline), chunks |-> done]

\* fault variant: a chunk is closed before any line that goes over the ceiling
ChunkLineAtAnyLine(line, cur, done) ==
  IF StrLen(cur) + StrLen(line) > 15000
  THEN [currentChunk |-> Concat(line, Newline), chunks |-> Append(done, cur)]
  ELSE [currentChunk |-> Concat(Concat(cur, line), Newline), chunks |-> done]

\* one round of the loop over the lines: [currentChunk, chunks] after line
ChunkLine(line, cur, done) ==
  IF /\ StrLen(cur) + StrLen(line) > ChunkCeiling
     /\ (StartsWithHash(line) \/ TrimIsEmpty(line))
  THEN [currentChunk |-> Concat(line, Newline), chunks |-> Append(done, cur)]
  ELSE [currentChunk |-> Concat(Concat(cur, line), Newline), chunks |-> done]

\* if (currentChunk) chunks.push(currentChunk)
LastChunk(cur, done) == IF cur # EmptyStr THEN Append(done, cur) ELSE done

(***************************************************************************)
(* The texts the model service can answer with, written as JSON.stringify  *)
(* writes them.                                                            *)
(***************************************************************************)
RECURSIVE CommaJoin(_)
CommaJoin(parts) ==
  IF parts = <<>> THEN <<>>
  ELSE IF Len(parts) = 1 THEN parts[1]
  ELSE parts[1] \o <<P(",")>> \o CommaJoin(Tail(parts))

KV(key, value) == <<StrTok(S(key)), P(":")>> \o value
ObjText(members) == <<P("{")>> \o CommaJoin(members) \o <<P("}")>>
ArrText(elements) == <<P("[")>> \o CommaJoin(elements) \o <<P("]")>>
StrText(s) == <<StrTok(s)>>

\* the bounds of the model
MaxTotalPages == 3
MaxImages == 1
MaxFragments == 3
MaxRawPages == 3
MaxParagraphs == 2
BigChunks == 80

ShortContent == <<Run("a", 3)>>
LongLine == <<Run("a", ChunkCeiling)>>
HeadingLine == <<Run("#", ChunkCeiling + 1)>>

\* n paragraphs of ChunkCeiling characters each, a blank line between them
LongContent(n) == Join([k \in 1..n |-> LongLine], <<Run(NL, 2)>>)

\* n heading lines, each longer than ChunkCeiling
BigContent(n) ==
  [k \in 1..(2 * n - 1) |-> IF k % 2 = 1 THEN HeadingLine[1] ELSE Run(NL, 1)]

\* Phase 1: {title, author, pages: [{pageNumber, content}]}
RawPage(n, content) ==
  ObjText(<<KV("pageNumber", <<NumTok(n)>>), KV("content", StrText(content))>>)

Phase1Doc(contents) ==
  ObjText(<<KV("title", StrText(S("T"))), KV("author", StrText(S("A"))),
            KV("pages", ArrText([k \in 1..Len(contents) |->
                                   RawPage(k, contents[k])]))>>)

ShortDoc(n) == Phase1Doc([k \in 1..n |-> ShortContent])
LongDoc(n) == Phase1Doc(<<LongContent(n)>>)
BigDoc == Phase1Doc(<<BigContent(BigChunks - 1)>>)
NoPagesDoc == ObjText(<<KV("title", StrText(S("T")))>>)
NullText == <<LitTok("null")>>

\* a text that stops inside its last element: the element's content string,
\* and the three closing tokens after it, are missing
CutInLastElement(text) == SubSeq(text, 1, Len(text) - 4) \o <<CutTok>>

\* the texts the Phase-1 stream can deliver
Phase1Texts(scn) ==
  IF scn = "large" THEN {BigDoc}
  ELSE {<<>>, NullText, NoPagesDoc,
        CutInLastElement(ShortDoc(1)), CutInLastElement(ShortDoc(2))}
         \cup {ShortDoc(n) : n \in 0..MaxRawPages}
         \cup {LongDoc(n) : n \in 2..MaxParagraphs}

\* Phase 2: {processedPages: [{content, chapterTitle}]}
RefinedPageText(content, title) ==
  ObjText(<<KV("content", StrText(content)), KV("chapterTitle", StrText(title))>>)

UntitledPageText(content) == ObjText(<<KV("content", StrText(content))>>)

Phase2Doc(pages) == ObjText(<<KV("processedPages", ArrText(pages))>>)

OnePage == Phase2Doc(<<RefinedPageText(S("r1"), S("Cap 1"))>>)
TwoPages ==
  Phase2Doc(<<RefinedPageText(S("r1"), S("Cap 1")), UntitledPageText(S("r2"))>>)
NoArray == ObjText(<<>>)
NullElement ==
  Phase2Doc(<<RefinedPageText(S("r1"), S("Cap 1")), <<LitTok("null")>>>>)

NoResponse == [kind |-> "none", text |-> <<>>]
Throws == [kind |-> "throw", text |-> <<>>]
Responds(text) == [kind |-> "response", text |-> text]

\* what a Phase-2 request can end in
ChunkOutcomes(scn) ==
  IF scn = "large" THEN {Throws}
  ELSE {Throws} \cup {Responds(t) : t \in {<<>>, OnePage, TwoPages, NoArray,
                                          CutInLastElement(TwoPages), NullElement}}

UpstreamError == Err("ApiError", "model request failed")
NoResponseError == Err("Error", "Sem resposta do Gemini")

(***************************************************************************)
(* parsePdfToBook, one action for each stretch of it between two awaits.   *)
(***************************************************************************)
phase1Vars == <<totalPages, images, imageContext, stream, fullText, nFrags>>
chunkVars == <<rawData, lines, lineIdx, currentChunk, chunks>>
phase2Vars == <<i, response, refinedPages, currentPageOffset, origin>>
queueVars == <<queue, isProcessing, flights, store, nextId>>
pipelineVars == <<scenario, pc, reports, requests, outcome,
                  phase1Vars, chunkVars, phase2Vars>>
\* the reader: the view of the App, the pages of the book it reads, the
\* page index of BookReader, the index the last render has shown (the one
\* its handlers read), the key events handled since that render
readerVars == <<appState, currentBook, currentPageIndex, shownPageIndex,
                keysSinceRender>>
vars == <<pipelineVars, queueVars, readerVars>>

\* Math.round(a / b), a >= 0, b > 0
Round(a, b) == (2 * a + b) \div (2 * b)

\* onProgress(percent)
Report(percent) == reports' = Append(reports, percent)

NoOutcome == [kind |-> "none", err |-> NoError, doc |-> Undefined]
Threw(e) == [kind |-> "threw", err |-> e, doc |-> Undefined]
Returned(doc) == [kind |-> "returned", err |-> NoError, doc |-> doc]

\* the catch of parsePdfToBook logs the error and throws it again
Fail(e) == pc' = "failed" /\ outcome' = Threw(e)

Scenarios == {"small", "large"}

PipelineInit ==
  /\ scenario \in Scenarios
  /\ pc = "idle"
  /\ reports = <<>>
  /\ requests = <<>>
  /\ outcome = NoOutcome
  /\ totalPages = 0
  /\ images = <<>>
  /\ imageContext = EmptyStr
  /\ stream = <<>>
  /\ fullText = <<>>
  /\ nFrags = 0
  /\ rawData = Undefined
  /\ lines = <<>>
  /\ lineIdx = 0
  /\ currentChunk = EmptyStr
  /\ chunks = <<>>
  /\ i = 0
  /\ response = NoResponse
  /\ refinedPages = <<>>
  /\ currentPageOffset = 0
  /\ origin = <<>>

\* the App before any book is opened
ReaderInit ==
  /\ appState = "DASHBOARD"
  /\ currentBook = <<>>
  /\ currentPageIndex = 0
  /\ shownPageIndex = 0
  /\ keysSinceRender = 0

\* the queue before any file is selected
QueueInit ==
  /\ queue = <<>>
  /\ isProcessing = FALSE
  /\ flights = {}
  /\ store = {}
  /\ nextId = 1
  /\ ReaderInit

\* the call, up to the await of getPdfPageCount
Start ==
  /\ pc = "idle"
  /\ Report(5)
  /\ pc' = "pageCount"
  /\ UNCHANGED <<scenario, requests, outcome, phase1Vars, chunkVars, phase2Vars>>
  /\ UNCHANGED <<queueVars, readerVars>>

\* getPdfPageCount: pdf.numPages, or 0 when the document cannot be loaded
getPdfPageCount(loaded, numPages) == IF loaded THEN numPages ELSE 0

PageCount ==
  /\ pc = "pageCount"
  /\ \E loaded \in BOOLEAN, numPages \in 1..MaxTotalPages :
       totalPages' = getPdfPageCount(loaded, numPages)
  /\ Report(10)
  /\ pc' = "images"
  /\ UNCHANGED <<scenario, requests, outcome, images, imageContext, stream,
                 fullText, nFrags, chunkVars, phase2Vars>>
  /\ UNCHANGED <<queueVars, readerVars>>

\* extractImagesFromPdf: the images uploaded before the extraction ended or
\* failed (it catches its own errors and returns what it has)
Image(n) == [page |-> n, url |-> "https://files.catbox.moe/img.png"]
extractImagesFromPdf(n) == [k \in 1..n |-> Image(k)]

ImageLine(img) ==
  Concat(Concat(S("- Pagina "), NumToStr(img.page)), Concat(S(": "), S(img.url)))

\* the imageContext of a non-empty list (written without its accents)
ImageContextOf(imgs) ==
  Concat(<<Run(NL, 2)>>,
    Concat(S("**IMAGENS DISPONIVEIS**:"),
      Concat(Newline,
        Concat(Join([k \in 1..Len(imgs) |-> ImageLine(imgs[k])], Newline),
               Newline))))

\* fault variant: an extraction that yields no image ends the run
ExtractImagesFatal ==
  /\ pc = "images"
  /\ \E n \in 0..MaxImages :
       /\ images' = extractImagesFromPdf(n)
       /\ imageContext' = IF n > 0 THEN ImageContextOf(images') ELSE EmptyStr
       /\ IF n = 0
          THEN Fail(UpstreamError) /\ UNCHANGED reports
          ELSE Report(15) /\ pc' = "readFile" /\ UNCHANGED outcome
  /\ UNCHANGED <<scenario, requests, totalPages, stream, fullText,
                 nFrags, chunkVars, phase2Vars>>
  /\ UNCHANGED <<queueVars, readerVars>>

ExtractImages ==
  /\ pc = "images"
  /\ \E n \in 0..MaxImages :
       /\ images' = extractImagesFromPdf(n)
       /\ imageContext' = IF Len(images') > 0 THEN ImageContextOf(images')
                          ELSE EmptyStr
  /\ Report(15)
  /\ pc' = "readFile"
  /\ UNCHANGED <<scenario, requests, outcome, totalPages, stream, fullText,
                 nFrags, chunkVars, phase2Vars>>
  /\ UNCHANGED <<queueVars, readerVars>>

\* fileToGenerativePart: its promise resolves in onloadend, where a failed
\* read has result null and result.split throws, so that it never settles
ReadFile ==
  /\ pc = "readFile"
  /\ \E readable \in BOOLEAN : pc' = IF readable THEN "request" ELSE "hung"
  /\ UNCHANGED <<scenario, reports, requests, outcome, phase1Vars, chunkVars,
                 phase2Vars>>
  /\ UNCHANGED <<queueVars, readerVars>>

Phase1Request == [phase |-> 1, chunk |-> 0, imageContext |-> imageContext]
Phase2Request(n) == [phase |-> 2, chunk |-> n, imageContext |-> EmptyStr]

\* ai.models.generateContentStream: the stream, or an error
RequestStream ==
  /\ pc = "request"
  /\ requests' = Append(requests, Phase1Request)
  /\ \/ \E text \in Phase1Texts(scenario) :
          /\ stream' = text
          /\ pc' = "stream"
          /\ UNCHANGED outcome
     \/ /\ Fail(UpstreamError)
        /\ UNCHANGED stream
  /\ UNCHANGED <<scenario, reports, totalPages, images, imageContext, fullText,
                 nFrags, chunkVars, phase2Vars>>
  /\ UNCHANGED <<queueVars, readerVars>>

\* fullText.match(/"pageNumber":/g): the markers in the text received
IsMarker(t, at) ==
  at < Len(t) /\ IsStrTok(t[at], S("pageNumber")) /\ IsP(t[at + 1], ":")
CountMarkers(t) == Cardinality({at \in 1..Len(t) : IsMarker(t, at)})

\* fault variant: the percentage without its ceiling of 45
Phase1PercentUnclamped(pagesProcessed, total) ==
  15 + Round(45 * pagesProcessed, total)

\* fault variant: the quotient is cut, not rounded
Phase1PercentFloor(pagesProcessed, total) ==
  15 + Min(45, (45 * pagesProcessed) \div total)

\* 15 + Math.min(45, Math.round((pagesProcessed / totalPages) * 45))
Phase1Percent(pagesProcessed, total) ==
  15 + Min(45, Round(45 * pagesProcessed, total))

\* The lengths the next fragment can have: the rest of the text; or, while
\* more fragments may follow, a fragment with no text, one that ends inside a
\* marker (after its key) and one that ends with a marker.
FragmentSizes(scn, rest, n) ==
  {Len(rest)} \cup
  IF scn = "small" /\ n + 1 < MaxFragments
  THEN {0} \cup {at \in 1..Len(rest) :
                   IsMarker(rest, at) \/ (at > 1 /\ IsMarker(rest, at - 1))}
  ELSE {}

\* fault variant: a page count of 0 is taken for 1, and reported on
StreamFragmentCountsFromOne ==
  /\ pc = "stream"
  /\ nFrags < MaxFragments
  /\ \E size \in FragmentSizes(scenario, stream, nFrags) :
       /\ fullText' = fullText \o SubSeq(stream, 1, size)
       /\ stream' = SubSeq(stream, size + 1, Len(stream))
  /\ nFrags' = nFrags + 1
  /\ Report(Phase1Percent(CountMarkers(fullText'),
                          IF totalPages > 0 THEN totalPages ELSE 1))
  /\ UNCHANGED <<scenario, pc, requests, outcome, totalPages, images,
                 imageContext, chunkVars, phase2Vars>>
  /\ UNCHANGED <<queueVars, readerVars>>

\* one round of the for await
StreamFragment ==
  /\ pc = "stream"
  /\ nFrags < MaxFragments
  /\ \E size \in FragmentSizes(scenario, stream, nFrags) :
       /\ fullText' = fullText \o SubSeq(stream, 1, size)
       /\ stream' = SubSeq(stream, size + 1, Len(stream))
  /\ nFrags' = nFrags + 1
  /\ IF totalPages > 0
     THEN Report(Phase1Percent(CountMarkers(fullText'), totalPages))
     ELSE UNCHANGED reports
  /\ UNCHANGED <<scenario, pc, requests, outcome, totalPages, images,
                 imageContext, chunkVars, phase2Vars>>
  /\ UNCHANGED <<queueVars, readerVars>>

\* the stream throws while it is read
StreamError ==
  /\ pc = "stream"
  /\ stream # <<>>
  /\ Fail(UpstreamError)
  /\ UNCHANGED <<scenario, reports, requests, phase1Vars, chunkVars, phase2Vars>>
  /\ UNCHANGED <<queueVars, readerVars>>

\* refineContentWithTheTwin, up to its loop over the lines
StartRefine(rawBook) ==
  IF ContentThrows(rawBook)
  THEN /\ Fail(TypeError)
       /\ UNCHANGED <<lines, lineIdx, currentChunk, chunks>>
  ELSE /\ lines' = Split(FullContent(rawBook))
       /\ lineIdx' = 1
       /\ currentChunk' = EmptyStr
       /\ chunks' = <<>>
       /\ pc' = "chunking"
       /\ UNCHANGED outcome

\* fault variant: a text that cannot be decoded is replaced by a document of
\* one page
DecodeLenient(text, decoded) ==
  IF text = <<>>
  THEN /\ Fail(NoResponseError)
       /\ UNCHANGED <<reports, chunkVars>>
  ELSE /\ rawData' = IF decoded.ok THEN decoded.v ELSE JsonParse(ShortDoc(1)).v
       /\ Report(60)
       /\ StartRefine(rawData')

\* after the for await: the check for an empty text, the decoding, the
\* report of 60 and the call of refineContentWithTheTwin
Decode(text, decoded) ==
  IF text = <<>>
  THEN /\ Fail(NoResponseError)
       /\ UNCHANGED <<reports, chunkVars>>
  ELSE IF ~decoded.ok
  THEN /\ Fail(decoded.err)
       /\ UNCHANGED <<reports, chunkVars>>
  ELSE /\ rawData' = decoded.v
       /\ Report(60)
       /\ StartRefine(decoded.v)

\* the stream has ended
StreamEnd ==
  /\ pc = "stream"
  /\ stream = <<>>
  /\ Decode(fullText, robustJsonParse(fullText))
  /\ UNCHANGED <<scenario, requests, phase1Vars, phase2Vars>>
  /\ UNCHANGED <<queueVars, readerVars>>

\* one round of the loop over the lines
NextLine ==
  /\ pc = "chunking"
  /\ lineIdx <= Len(lines)
  /\ LET r == ChunkLine(lines[lineIdx], currentChunk, chunks) IN
       /\ currentChunk' = r.currentChunk
       /\ chunks' = r.chunks
  /\ lineIdx' = lineIdx + 1
  /\ UNCHANGED <<scenario, pc, reports, requests, outcome, phase1Vars, rawData,
                 lines, phase2Vars>>
  /\ UNCHANGED <<queueVars, readerVars>>

\* after the last line: the last chunk, and the start of the loop over chunks
LastLine ==
  /\ pc = "chunking"
  /\ lineIdx > Len(lines)
  /\ chunks' = LastChunk(currentChunk, chunks)
  /\ refinedPages' = <<>>
  /\ origin' = <<>>
  /\ currentPageOffset' = 1
  /\ i' = 0
  /\ pc' = "loop"
  /\ UNCHANGED <<scenario, reports, requests, outcome, phase1Vars, rawData,
                 lines, lineIdx, currentChunk, response>>
  /\ UNCHANGED <<queueVars, readerVars>>

\* progressBase + Math.round((i / chunks.length) * progressRange)
ProgressBase == 60
ProgressRange == 40
\* fault variant: the percentage of the chunks handled after this round
Phase2PercentAfter(n, count) == 60 + Round(40 * (n + 1), count)

\* fault variant: the quotient is cut, not rounded
Phase2PercentFloor(n, count) == 60 + ((40 * n) \div count)

Phase2Percent(n, count) == ProgressBase + Round(ProgressRange * n, count)

\* a round of the loop over the chunks, up to the await of generateContent
ChunkRequest ==
  /\ pc = "loop"
  /\ i < Len(chunks)
  /\ Report(Phase2Percent(i, Len(chunks)))
  /\ requests' = Append(requests, Phase2Request(i))
  /\ pc' = "await"
  /\ UNCHANGED <<scenario, outcome, phase1Vars, chunkVars, phase2Vars>>
  /\ UNCHANGED <<queueVars, readerVars>>

DefaultChapter == JStr(S("Secao Geral"))
RecoveredChapter == JStr(S("Conteudo Recuperado"))

\* the page pushed for element p of processedPages
RefinedPage(p, n) ==
  [pageNumber |-> n,
   content |-> Get(p, "content"),
   chapterTitle |-> IF Truthy(Get(p, "chapterTitle")) THEN Get(p, "chapterTitle")
                    ELSE DefaultChapter]

\* the page pushed by the catch
FallbackPage(chunk, n) ==
  [pageNumber |-> n, content |-> JStr(chunk), chapterTitle |-> RecoveredChapter]

\* The try block on a request's outcome: the elements of processedPages whose
\* pages it pushes, and whether it throws (the request does, the decoding
\* does, json is null, or an element is null: the pages of the elements
\* before that one are pushed by then).
FirstNull(a) ==
  IF \E k \in 1..Len(a) : Nullish(a[k])
  THEN CHOOSE k \in 1..Len(a) : Nullish(a[k]) /\ \A j \in 1..(k - 1) : ~Nullish(a[j])
  ELSE Len(a) + 1

ForEach(a, firstNull) ==
  [pushed |-> SubSeq(a, 1, firstNull - 1), throws |-> firstNull <= Len(a)]

IfArray(processedPages) ==
  IF processedPages.t # "arr" THEN [pushed |-> <<>>, throws |-> FALSE]
  ELSE ForEach(processedPages.a, FirstNull(processedPages.a))

Decoded(decoded) ==
  IF ~decoded.ok \/ Nullish(decoded.v) THEN [pushed |-> <<>>, throws |-> TRUE]
  ELSE IfArray(Get(decoded.v, "processedPages"))

\* fault variant: a response that cannot be decoded is passed over
TryBlockSkipsUndecodable(resp) ==
  IF resp.kind = "throw" THEN [pushed |-> <<>>, throws |-> TRUE]
  ELSE IF resp.text = <<>> \/ ~robustJsonParse(resp.text).ok
  THEN [pushed |-> <<>>, throws |-> FALSE]
  ELSE Decoded(robustJsonParse(resp.text))

TryBlock(resp) ==
  IF resp.kind = "throw" THEN [pushed |-> <<>>, throws |-> TRUE]
  ELSE IF resp.text = <<>> THEN [pushed |-> <<>>, throws |-> FALSE]
  ELSE Decoded(robustJsonParse(resp.text))

\* fault variant: the fallback page takes the number the round started with
PagesOfChunkStaleNumber(r, chunk, offset) ==
  [k \in 1..Len(r.pushed) |-> RefinedPage(r.pushed[k], offset + k - 1)]
    \o (IF r.throws THEN <<FallbackPage(chunk, offset)>> ELSE <<>>)

\* the pages one round of the loop pushes, numbered from offset
PagesOfChunk(r, chunk, offset) ==
  [k \in 1..Len(r.pushed) |-> RefinedPage(r.pushed[k], offset + k - 1)]
    \o (IF r.throws THEN <<FallbackPage(chunk, offset + Len(r.pushed))>> ELSE <<>>)

\* where the pages of one round come from: the chunk, and refined or fallback
OriginOfChunk(r, n) ==
  [k \in 1..Len(r.pushed) |-> [chunk |-> n, fallback |-> FALSE]]
    \o (IF r.throws THEN <<[chunk |-> n, fallback |-> TRUE]>> ELSE <<>>)

\* fault variant: the pages of a round are put before the pages pushed so far
PushInFront(r) ==
  /\ refinedPages' = PagesOfChunk(r, chunks[i + 1], currentPageOffset) \o refinedPages
  /\ currentPageOffset' = currentPageOffset + Len(r.pushed) + (IF r.throws THEN 1 ELSE 0)
  /\ origin' = OriginOfChunk(r, i) \o origin

\* the pushes of one round
Push(r) ==
  /\ refinedPages' = refinedPages \o PagesOfChunk(r, chunks[i + 1], currentPageOffset)
  /\ currentPageOffset' = currentPageOffset + Len(r.pushed) + (IF r.throws THEN 1 ELSE 0)
  /\ origin' = origin \o OriginOfChunk(r, i)

\* fault variant: a request that threw is issued again
ChunkResponseRetries ==
  /\ pc = "await"
  /\ \E resp \in ChunkOutcomes(scenario) :
       /\ response' = resp
       /\ IF resp.kind = "throw"
          THEN UNCHANGED <<i, refinedPages, currentPageOffset, origin>>
          ELSE Push(TryBlock(resp)) /\ i' = i + 1
  /\ pc' = "loop"
  /\ UNCHANGED <<scenario, reports, requests, outcome, phase1Vars, chunkVars>>
  /\ UNCHANGED <<queueVars, readerVars>>

\* the rest of the round: the request's outcome, the try and its catch
ChunkResponse ==
  /\ pc = "await"
  /\ \E resp \in ChunkOutcomes(scenario) :
       /\ response' = resp
       /\ Push(TryBlock(resp))
  /\ i' = i + 1
  /\ pc' = "loop"
  /\ UNCHANGED <<scenario, reports, requests, outcome, phase1Vars, chunkVars>>
  /\ UNCHANGED <<queueVars, readerVars>>

\* fault variant: the Document is returned without the title of Phase 1
RefinedDataUntitled(rawBook, pages) ==
  [title |-> Undefined, author |-> Get(rawBook, "author"), pages |-> pages]

\* the Document refineContentWithTheTwin returns
RefinedData(rawBook, pages) ==
  [title |-> Get(rawBook, "title"), author |-> Get(rawBook, "author"),
   pages |-> pages]

\* after the last chunk: the return of the refined document
Return ==
  /\ pc = "loop"
  /\ i >= Len(chunks)
  /\ Report(100)
  /\ outcome' = Returned(RefinedData(rawData, refinedPages))
  /\ pc' = "done"
  /\ UNCHANGED <<scenario, requests, phase1Vars, chunkVars, phase2Vars>>
  /\ UNCHANGED <<queueVars, readerVars>>

Next ==
  \/ Start
  \/ PageCount
  \/ ExtractImages
  \/ ReadFile
  \/ RequestStream
  \/ StreamFragment
  \/ StreamError
  \/ StreamEnd
  \/ NextLine
  \/ LastLine
  \/ ChunkRequest
  \/ ChunkResponse
  \/ Return

Init == PipelineInit /\ QueueInit

Spec == Init /\ [][Next]_vars

(***************************************************************************)
(* The queue of the App component.  A state update is applied when it is   *)
(* issued, and the effect runs on the state the updates have produced:     *)
(* the updates of one synchronous stretch make one step.                   *)
(***************************************************************************)

MaxFiles == 3
MaxSelect == 2

\* the name of the n-th file selected
FileName(n) == Concat(Concat(S("livro"), NumToStr(n)), S(".pdf"))

\* fileName.replace('.pdf', ''): the name without its first ".pdf"
FirstPdf(name) ==
  CHOOSE k \in 1..Len(name) :
    name[k].c = ".pdf" /\ \A j \in 1..(k - 1) : name[j].c # ".pdf"
ReplacePdf(name) ==
  IF \A k \in 1..Len(name) : name[k].c # ".pdf" THEN name
  ELSE Concat(SubSeq(name, 1, FirstPdf(name) - 1),
              Concat(IF name[FirstPdf(name)].n > 1
                     THEN <<Run(".pdf", name[FirstPdf(name)].n - 1)>> ELSE <<>>,
                     SubSeq(name, FirstPdf(name) + 1, Len(name))))

\* an item of newItems
NewItem(n) ==
  [id |-> n, status |-> "PENDING", progress |-> 0, error |-> Undefined,
   fileName |-> FileName(n)]

\* setQueue(prev => [...prev, ...newItems])
handleFilesSelect(prev, first, n) ==
  prev \o [k \in 1..n |-> NewItem(first + k - 1)]

HandleFilesSelect ==
  /\ \E n \in 1..MaxSelect :
       /\ nextId + n - 1 <= MaxFiles
       /\ queue' = handleFilesSelect(queue, nextId, n)
       /\ nextId' = nextId + n
  /\ UNCHANGED <<isProcessing, flights, store>>
  /\ UNCHANGED <<pipelineVars, readerVars>>

\* fault variant: the retry that leaves the progress and the error
retryQueueItemStatusOnly(prev, id) ==
  [k \in 1..Len(prev) |->
     IF prev[k].id = id THEN [prev[k] EXCEPT !.status = "PENDING"] ELSE prev[k]]

\* the updater of retryQueueItem
retryQueueItem(prev, id) ==
  [k \in 1..Len(prev) |->
     IF prev[k].id = id
     THEN [prev[k] EXCEPT !.status = "PENDING", !.error = Undefined, !.progress = 0]
     ELSE prev[k]]

\* the retry button, which an item in ERROR shows
RetryQueueItem ==
  /\ \E k \in 1..Len(queue) :
       /\ queue[k].status = "ERROR"
       /\ queue' = retryQueueItem(queue, queue[k].id)
  /\ UNCHANGED <<isProcessing, flights, store, nextId>>
  /\ UNCHANGED <<pipelineVars, readerVars>>

\* the button that clears the queue, shown while the queue has items
ClearQueue ==
  /\ Len(queue) > 0
  /\ queue' = <<>>
  /\ UNCHANGED <<isProcessing, flights, store, nextId>>
  /\ UNCHANGED <<pipelineVars, readerVars>>

\* fault variant: the index of the last PENDING item
FindPendingLast(q) ==
  IF \A k \in 1..Len(q) : q[k].status # "PENDING" THEN 0
  ELSE CHOOSE k \in 1..Len(q) :
         q[k].status = "PENDING" /\ \A j \in (k + 1)..Len(q) : q[j].status # "PENDING"

\* queue.findIndex(item => item.status === 'PENDING'), from 1; 0 for none
FindPending(q) ==
  IF \A k \in 1..Len(q) : q[k].status # "PENDING" THEN 0
  ELSE CHOOSE k \in 1..Len(q) :
         q[k].status = "PENDING" /\ \A j \in 1..(k - 1) : q[j].status # "PENDING"

\* the updaters of processQueue
SetProcessing(prev, idx) ==
  [k \in 1..Len(prev) |->
     IF k = idx THEN [prev[k] EXCEPT !.status = "PROCESSING"] ELSE prev[k]]

SetProgress(prev, id, percent) ==
  [k \in 1..Len(prev) |->
     IF prev[k].id = id THEN [prev[k] EXCEPT !.progress = percent] ELSE prev[k]]

SetCompleted(prev, id) ==
  [k \in 1..Len(prev) |->
     IF prev[k].id = id
     THEN [prev[k] EXCEPT !.status = "COMPLETED", !.progress = 100]
     ELSE prev[k]]

DefaultMessage == JStr(S("Falha ao processar"))

\* fault variant: the message of the error, without the default message
SetErrorNoDefault(prev, id, error) ==
  [k \in 1..Len(prev) |->
     IF prev[k].id = id
     THEN [prev[k] EXCEPT !.status = "ERROR", !.error = Get(error, "message")]
     ELSE prev[k]]

SetError(prev, id, error) ==
  [k \in 1..Len(prev) |->
     IF prev[k].id = id
     THEN [prev[k] EXCEPT !.status = "ERROR",
                          !.error = IF Truthy(Get(error, "message"))
                                    THEN Get(error, "message")
                                    ELSE DefaultMessage]
     ELSE prev[k]]

\* an invocation of processQueue that is past its guards: the item it took,
\* where it waits, the last percentage reported, the book it saves
NoBook == [id |-> 0, title |-> Undefined, author |-> Undefined]
Flight(item) ==
  [id |-> item.id, fileName |-> item.fileName, stage |-> "pipeline", last |-> 5,
   raw |-> Undefined, book |-> NoBook]

\* fault variant: processQueue without its guard on isProcessing
ProcessQueueUnguarded ==
  /\ FindPending(queue) # 0
  /\ isProcessing' = TRUE
  /\ queue' = SetProgress(SetProcessing(queue, FindPending(queue)),
                          queue[FindPending(queue)].id, 5)
  /\ flights' = flights \cup {Flight(queue[FindPending(queue)])}
  /\ UNCHANGED <<store, nextId>>
  /\ UNCHANGED <<pipelineVars, readerVars>>

\* the effect: processQueue up to the first await of parsePdfToBook, which
\* has reported 5 by then
ProcessQueue ==
  /\ ~isProcessing
  /\ FindPending(queue) # 0
  /\ isProcessing' = TRUE
  /\ queue' = SetProgress(SetProcessing(queue, FindPending(queue)),
                          queue[FindPending(queue)].id, 5)
  /\ flights' = flights \cup {Flight(queue[FindPending(queue)])}
  /\ UNCHANGED <<store, nextId>>
  /\ UNCHANGED <<pipelineVars, readerVars>>

\* the percentages the queue is shown between 5 and the last report
Percents == {10, 60, 100}

\* the progress callback, called with one of percents
OnProgressOf(percents) ==
  /\ \E f \in flights, percent \in percents :
       /\ f.stage = "pipeline"
       /\ percent >= f.last
       /\ queue' = SetProgress(queue, f.id, percent)
       /\ flights' = (flights \ {f}) \cup {[f EXCEPT !.last = percent]}
  /\ UNCHANGED <<isProcessing, store, nextId>>
  /\ UNCHANGED <<pipelineVars, readerVars>>

OnProgress == OnProgressOf(Percents)

\* newBook, without its pages and createdAt
NewBook(bookDataPartial, f) ==
  [id |-> f.id,
   title |-> IF Truthy(bookDataPartial.title) THEN bookDataPartial.title
             ELSE JStr(ReplacePdf(f.fileName)),
   author |-> bookDataPartial.author]

\* what Phase 1 can have decoded in a run that returns: a document with a
\* title and an author, one without them, one whose title is empty
UntitledDoc == ObjText(<<KV("pages", ArrText(<<RawPage(1, ShortContent)>>))>>)
EmptyTitleDoc ==
  ObjText(<<KV("title", StrText(EmptyStr)), KV("author", StrText(S("A"))),
            KV("pages", ArrText(<<RawPage(1, ShortContent)>>))>>)
RawBooks == {robustJsonParse(t).v : t \in {ShortDoc(1), UntitledDoc, EmptyTitleDoc}}

\* parsePdfToBook reports 100 and returns the Document of
\* refineContentWithTheTwin; saveBookToDB is called
PipelineReturnsOf(rawBooks) ==
  /\ \E f \in flights, rawBook \in rawBooks :
       /\ f.stage = "pipeline"
       /\ queue' = SetProgress(queue, f.id, 100)
       /\ flights' = (flights \ {f}) \cup
            {[f EXCEPT !.last = 100, !.stage = "saving", !.raw = rawBook,
                       !.book = NewBook(RefinedData(rawBook, <<>>), f)]}
  /\ UNCHANGED <<isProcessing, store, nextId>>
  /\ UNCHANGED <<pipelineVars, readerVars>>

PipelineReturns == PipelineReturnsOf(RawBooks)

\* the values an await can throw: objects with a message, with an empty
\* message and without one
ErrorValue(message) == JObj(<<[key |-> S("message"), val |-> message]>>)
Thrown ==
  {ErrorValue(JStr(S("Sem resposta do Gemini"))), ErrorValue(JStr(EmptyStr)),
   JObj(<<>>)}

\* fault variant: the catch without the finally
CatchNoFinally(f, error) ==
  /\ queue' = SetError(queue, f.id, error)
  /\ flights' = flights \ {f}
  /\ UNCHANGED <<isProcessing, store, nextId>>

\* the catch and the finally of processQueue
Catch(f, error) ==
  /\ queue' = SetError(queue, f.id, error)
  /\ isProcessing' = FALSE
  /\ flights' = flights \ {f}
  /\ UNCHANGED <<store, nextId>>

\* the await of an invocation at that stage throws one of errors
ThrowsAt(stage, errors) ==
  /\ \E f \in flights, error \in errors : f.stage = stage /\ Catch(f, error)
  /\ UNCHANGED <<pipelineVars, readerVars>>

\* parsePdfToBook throws
PipelineThrows == ThrowsAt("pipeline", Thrown)

\* saveBookToDB: the store with the book put under its id
saveBookToDB(books, book) == {b \in books : b.id # book.id} \cup {book}

\* the book is saved: COMPLETED, then the finally
SaveSucceeds ==
  /\ \E f \in flights :
       /\ f.stage = "saving"
       /\ store' = saveBookToDB(store, f.book)
       /\ queue' = SetCompleted(queue, f.id)
       /\ flights' = flights \ {f}
  /\ isProcessing' = FALSE
  /\ UNCHANGED nextId
  /\ UNCHANGED <<pipelineVars, readerVars>>

\* saveBookToDB rejects
SaveFails == ThrowsAt("saving", Thrown)

QueueNext ==
  \/ HandleFilesSelect
  \/ RetryQueueItem
  \/ ClearQueue
  \/ ProcessQueue
  \/ OnProgress
  \/ PipelineReturns
  \/ PipelineThrows
  \/ SaveSucceeds
  \/ SaveFails

SpecQueue == Init /\ [][QueueNext]_vars

\* The queue when what it waits for comes: the effect runs after every
\* render, every invocation of parsePdfToBook returns or throws, and
\* saveBookToDB settles.
\* The statuses do not depend on the percentage reported, on the book
\* returned or on the value thrown: one of each is followed here.
OneBook == {robustJsonParse(ShortDoc(1)).v}
OneError == {ErrorValue(JStr(S("Sem resposta do Gemini")))}

Ends(stage) ==
  \/ stage = "pipeline" /\ PipelineReturnsOf(OneBook)
  \/ stage = "saving" /\ SaveSucceeds
  \/ ThrowsAt(stage, OneError)

QueueFairInit == Init /\ scenario = "small"

QueueFairNext ==
  \/ HandleFilesSelect
  \/ RetryQueueItem
  \/ ClearQueue
  \/ ProcessQueue
  \/ OnProgressOf({60})
  \/ Ends("pipeline")
  \/ Ends("saving")

QueueFairness ==
  /\ WF_vars(ProcessQueue)
  /\ WF_vars(Ends("pipeline"))
  /\ WF_vars(Ends("saving"))

SpecQueueFair == QueueFairInit /\ [][QueueFairNext]_vars /\ QueueFairness

(***************************************************************************)
(* The chunker alone: the loop over the lines of refineContentWithTheTwin, *)
(* started on a document of one page whose content is any text of up to    *)
(* MaxLines lines.                                                         *)
(***************************************************************************)

MaxLines == 3

\* the lines a text is made of: an empty line, a line of blanks, a short line
\* of text, a short heading, a line of text and a heading as long as a chunk
LineKinds ==
  {<<>>, <<Run(" ", 2)>>, ShortContent, <<Run("#", 1), Run("a", 2)>>,
   LongLine, HeadingLine}

ChunkerTexts ==
  {Join(ls, Newline) : ls \in UNION {[1..n -> LineKinds] : n \in 1..MaxLines}}

\* the document Phase 1 decoded: one page with that content
BookOf(text) ==
  JObj(<<[key |-> S("pages"),
          val |-> JArr(<<JObj(<<[key |-> S("content"), val |-> JStr(text)]>>)>>)]>>)

\* the state in which the loop over the lines starts
ChunkerInit ==
  /\ scenario = "small"
  /\ pc = "chunking"
  /\ reports = <<5, 10, 15, 60>>
  /\ outcome = NoOutcome
  /\ totalPages = 0
  /\ images = <<>>
  /\ imageContext = EmptyStr
  /\ requests = <<Phase1Request>>
  /\ stream = <<>>
  /\ fullText = <<>>
  /\ nFrags = 0
  /\ rawData \in {BookOf(text) : text \in ChunkerTexts}
  /\ lines = Split(FullContent(rawData))
  /\ lineIdx = 1
  /\ currentChunk = EmptyStr
  /\ chunks = <<>>
  /\ i = 0
  /\ response = NoResponse
  /\ refinedPages = <<>>
  /\ currentPageOffset = 0
  /\ origin = <<>>
  /\ QueueInit

ChunkerNext ==
  \/ NextLine
  \/ LastLine

SpecChunker == ChunkerInit /\ [][ChunkerNext]_vars

(***************************************************************************)
(* The decoder alone: robustJsonParse applied to a text, for the texts     *)
(* below: documents that stop at any token or in the middle of one, bare   *)
(* or in a markdown fence.                                                 *)
(***************************************************************************)

\* an element of the array with an object inside it
NestedPage(n) ==
  ObjText(<<KV("meta", ObjText(<<KV("n", <<NumTok(n)>>)>>)),
            KV("content", StrText(ShortContent))>>)

NestedDoc(n) == ObjText(<<KV("pages", ArrText([k \in 1..n |-> NestedPage(k)]))>>)

DecoderDocs ==
  {ShortDoc(n) : n \in 0..MaxRawPages} \cup {NestedDoc(n) : n \in 1..2}
    \cup {NoPagesDoc, NullText, OnePage, TwoPages}

\* the text stops after n tokens, or in the middle of the token after them
Truncated(t, n) == SubSeq(t, 1, n)
CutInToken(t, n) == SubSeq(t, 1, n) \o <<CutTok>>

Truncations(t) ==
  {Truncated(t, n) : n \in 0..Len(t)} \cup {CutInToken(t, n) : n \in 0..(Len(t) - 1)}

\* a text in a fence with or without the json tag, in a fence that a line
\* break follows, and after a fence that the end of the text cut off
FencedJson(t) == <<FenceJson, WsTok>> \o t \o <<WsTok, Fence>>
Fenced(t) == <<Fence, WsTok>> \o t \o <<WsTok, Fence>>
FencedLine(t) == FencedJson(t) \o <<WsTok>>
FenceOpened(t) == <<FenceJson, WsTok>> \o t

Fencings(t) == {t, FencedJson(t), Fenced(t), FencedLine(t), FenceOpened(t)}

DecoderTexts ==
  UNION {Fencings(c) : c \in UNION {Truncations(t) : t \in DecoderDocs}}

DecoderInit ==
  /\ scenario = "small"
  /\ pc = "decoder"
  /\ reports = <<>>
  /\ requests = <<>>
  /\ outcome = NoOutcome
  /\ totalPages = 0
  /\ images = <<>>
  /\ imageContext = EmptyStr
  /\ stream = <<>>
  /\ fullText \in DecoderTexts
  /\ nFrags = 0
  /\ rawData = Undefined
  /\ lines = <<>>
  /\ lineIdx = 0
  /\ currentChunk = EmptyStr
  /\ chunks = <<>>
  /\ i = 0
  /\ response = NoResponse
  /\ refinedPages = <<>>
  /\ currentPageOffset = 0
  /\ origin = <<>>
  /\ QueueInit

\* robustJsonParse(fullText) returns a value or throws
CallRobustJsonParse ==
  /\ pc = "decoder"
  /\ LET decoded == robustJsonParse(fullText) IN
       /\ outcome' = IF decoded.ok THEN Returned(decoded.v) ELSE Threw(decoded.err)
       /\ rawData' = decoded.v
  /\ pc' = "decoded"
  /\ UNCHANGED <<scenario, reports, requests, phase1Vars, lines, lineIdx,
                 currentChunk, chunks, phase2Vars, queueVars, readerVars>>

DecoderNext == CallRobustJsonParse

SpecDecoder == DecoderInit /\ [][DecoderNext]_vars

(***************************************************************************)
(* Properties of parsePdfToBook                                            *)
(***************************************************************************)

NonDecreasing(q) == \A k \in 1..(Len(q) - 1) : q[k] <= q[k + 1]
Last(q) == q[Len(q)]
Phase2Requests == {k \in 1..Len(requests) : requests[k].phase = 2}

\* C1: in every run of parsePdfToBook that returns a Document, the progress
\* values reported never decrease and the last value reported is 100.
C1_ProgressMonotone ==
  outcome.kind = "returned" => NonDecreasing(reports) /\ Last(reports) = 100

\* a returned run with reports made while streaming (one strictly between 15
\* and 60), more than one chunk, and a fallback page
C1_Witness ==
  /\ outcome.kind = "returned"
  /\ \E k \in 1..Len(reports) : reports[k] > 15 /\ reports[k] < 60
  /\ Len(chunks) >= 2
  /\ \E k \in 1..Len(origin) : origin[k].fallback

\* the number of reports made while streaming
StreamReports == IF totalPages > 0 THEN nFrags ELSE 0

\* the reports of the loop over the chunks: one before each request
LoopReports ==
  SubSeq(reports, 5 + StreamReports, 4 + StreamReports + Cardinality(Phase2Requests))

\* the reports other than a 100 that ends a finished run
BeforeReturn ==
  IF pc = "done" THEN SubSeq(reports, 1, Len(reports) - 1) ELSE reports

\* The order of the milestones, without its clause on 100.
MilestoneOrder ==
  /\ pc = "idle" => reports = <<>>
  /\ pc = "pageCount" => reports = <<5>>
  /\ pc = "images" => reports = <<5, 10>>
  /\ pc \in {"readFile", "request"} => reports = <<5, 10, 15>>
  /\ pc = "stream" =>
       /\ SubSeq(reports, 1, 3) = <<5, 10, 15>>
       /\ Len(reports) = 3 + StreamReports
       /\ \A k \in 4..Len(reports) : reports[k] \in 15..60
  /\ pc = "chunking" =>
       /\ Len(reports) = 4 + StreamReports
       /\ Phase2Requests = {}
  /\ pc \in {"chunking", "loop", "await", "done"} =>
       /\ rawData # Undefined
       /\ SubSeq(reports, 1, 3) = <<5, 10, 15>>
       /\ \A k \in 4..(3 + StreamReports) : reports[k] \in 15..60
       /\ reports[4 + StreamReports] = 60
       /\ Len(BeforeReturn) = 4 + StreamReports + Cardinality(Phase2Requests)
       /\ \A k \in 1..Len(LoopReports) : LoopReports[k] \in 60..100
  /\ pc = "done" => Last(reports) = 100 /\ i = Len(chunks)

\* C2 as stated: the milestones come in the order 5, 10, 15, values of
\* 15..60 while streaming, 60, values of 60..100 in the loop over the chunks,
\* 100 last; and 100 is reported only after the last chunk was handled.
C2_HundredOnlyAfterLastChunk ==
  /\ MilestoneOrder
  /\ \A k \in 1..Len(reports) :
       reports[k] = 100 => pc = "done" /\ k = Len(reports)

\* C2, amended: the same order; a report of 100 made before the last chunk
\* was handled is a report of the loop over the chunks, and there are at
\* least 80 chunks then.
C2_MilestoneOrder ==
  /\ MilestoneOrder
  /\ \A k \in 1..Len(BeforeReturn) :
       BeforeReturn[k] = 100 => k > 4 + StreamReports /\ Len(chunks) >= 80

\* a finished run with several chunks, reports while streaming and reports of
\* the loop strictly between 60 and 100
C2_Witness ==
  /\ pc = "done"
  /\ StreamReports >= 2
  /\ Len(chunks) >= 2
  /\ \E k \in 1..Len(LoopReports) : LoopReports[k] > 60 /\ LoopReports[k] < 100

RequestOrDecodeFailed(resp) ==
  \/ resp.kind = "throw"
  \/ resp.kind = "response" /\ resp.text # <<>> /\ ~robustJsonParse(resp.text).ok

\* C4: when the request for a chunk throws, or the decoding of its response
\* fails, the round appends exactly one page, whose content is the whole
\* chunk and whose chapter title is the sentinel, leaves the pages appended
\* before as they are, and goes on to the next chunk.
C4_FallbackPage ==
  [][(pc = "await" /\ pc' # "await" /\ RequestOrDecodeFailed(response')) =>
       /\ refinedPages' =
            Append(refinedPages,
                   [pageNumber |-> Len(refinedPages) + 1,
                    content |-> JStr(chunks[i + 1]),
                    chapterTitle |-> JStr(S("Conteudo Recuperado"))])
       /\ i' = i + 1
       /\ pc' = "loop"
       /\ outcome' = outcome]_vars

\* a response that could not be decoded was replaced by a fallback page that
\* follows a refined page of an earlier chunk
C4_Witness ==
  /\ pc = "loop"
  /\ response.kind = "response"
  /\ RequestOrDecodeFailed(response)
  /\ Len(origin) >= 2
  /\ Last(origin).fallback
  /\ ~origin[1].fallback
  /\ Last(refinedPages).content = JStr(chunks[i])

\* C5 as stated: every chunk has at least one page of the returned Document
\* that comes from it, whatever the request for the chunk ends in.
C5_EveryChunkHasAPage ==
  outcome.kind = "returned" =>
    \A c \in 0..(Len(chunks) - 1) : \E k \in 1..Len(origin) : origin[k].chunk = c

\* C6 as stated: once the decoder of Phase 1 has returned a value, the run
\* does not throw.
C6_Phase2NeverThrows ==
  rawData # Undefined => outcome.kind # "threw"

\* C7: when the stream of Phase 1 ends with no text, or the decoding of its
\* text fails, parsePdfToBook throws that error, returns no Document, has
\* issued no request of Phase 2 and has not reported 100; and nothing more
\* happens in a run that has thrown.
C7_Phase1Fatal ==
  [][/\ (/\ pc = "stream" /\ pc' # "stream" /\ stream = <<>>
         /\ (fullText = <<>> \/ ~robustJsonParse(fullText).ok)) =>
          /\ pc' = "failed"
          /\ outcome'.kind = "threw"
          /\ outcome'.doc = Undefined
          /\ outcome'.err = IF fullText = <<>> THEN Err("Error", "Sem resposta do Gemini")
                            ELSE robustJsonParse(fullText).err
          /\ reports' = reports
          /\ \A k \in 1..Len(reports') : reports'[k] # 100
          /\ \A k \in 1..Len(requests') : requests'[k].phase = 1
     /\ pc # "failed"]_vars

\* a run that threw because a text with a pages key, received in several
\* fragments, could not be decoded nor recovered
C7_Witness ==
  /\ pc = "failed"
  /\ rawData = Undefined
  /\ nFrags >= 2
  /\ fullText # <<>>
  /\ IndexOfPages(fullText) > 0
  /\ outcome.err.name = "SyntaxError"

Processing == {k \in 1..Len(queue) : queue[k].status = "PROCESSING"}
QueueIds == {queue[k].id : k \in 1..Len(queue)}

\* C9: under every interleaving of selections, retries, clearings, progress
\* callbacks, completions and failures, at most one invocation of
\* parsePdfToBook is in flight and at most one item is PROCESSING.
C9_OneAtATime ==
  /\ Cardinality(flights) <= 1
  /\ Cardinality(Processing) <= 1

\* an invocation is in flight for an item the queue no longer has (the queue
\* was cleared), while two items selected since then wait
C9_Witness ==
  /\ \E f \in flights : f.id \notin QueueIds
  /\ \E k \in 1..Len(queue) :
       /\ queue[k].status = "PENDING"
       /\ \E j \in 1..Len(queue) : j # k /\ queue[j].status = "PENDING"
  /\ isProcessing

ArrayOf(resp) ==
  IF resp.kind # "response" \/ resp.text = <<>> THEN <<>>
  ELSE LET decoded == robustJsonParse(resp.text) IN
       IF decoded.ok /\ ~Nullish(decoded.v)
            /\ Get(decoded.v, "processedPages").t = "arr"
       THEN Get(decoded.v, "processedPages").a
       ELSE <<>>

\* the elements of an array before its first null or undefined element
BeforeNull(a) ==
  SubSeq(a, 1, Cardinality({k \in 1..Len(a) : \A j \in 1..k : ~Nullish(a[j])}))

\* the pages are grouped by chunk, in the order of the chunks, a fallback
\* page being the last page of its chunk
OrderedByChunk ==
  /\ Len(origin) = Len(refinedPages)
  /\ \A k \in 1..(Len(origin) - 1) :
       /\ origin[k].chunk <= origin[k + 1].chunk
       /\ origin[k].fallback => origin[k].chunk < origin[k + 1].chunk

\* C11: the pages of the returned Document keep the order of the chunks, and
\* the pages decoded from one response are appended in the order of its
\* array; with 2 chunks whose second request throws, the pages end with
\* exactly one fallback page, of chunk 2, after the pages of chunk 1.
C11_PageOrder ==
  [][/\ OrderedByChunk'
     /\ (pc = "await" /\ pc' = "loop") =>
          \A a \in {BeforeNull(ArrayOf(response'))} :
          /\ Len(refinedPages') >= Len(refinedPages) + Len(a)
          /\ SubSeq(refinedPages', 1, Len(refinedPages)) = refinedPages
          /\ \A k \in 1..Len(a) :
               /\ refinedPages'[Len(refinedPages) + k].content = Get(a[k], "content")
               /\ origin'[Len(refinedPages) + k] = [chunk |-> i, fallback |-> FALSE]
     /\ (outcome'.kind = "returned" /\ Len(chunks') = 2 /\ response'.kind = "throw") =>
          /\ outcome'.doc.pages = refinedPages'
          /\ Last(origin') = [chunk |-> 1, fallback |-> TRUE]
          /\ Last(refinedPages').content = JStr(chunks'[2])
          /\ \A k \in 1..(Len(origin') - 1) : origin'[k].chunk = 0]_vars

\* two chunks: the first gave two refined pages, in the order of its
\* response, the request of the second threw
C11_Witness ==
  /\ outcome.kind = "returned"
  /\ Len(chunks) = 2
  /\ response.kind = "throw"
  /\ origin = <<[chunk |-> 0, fallback |-> FALSE], [chunk |-> 0, fallback |-> FALSE],
               [chunk |-> 1, fallback |-> TRUE]>>
  /\ outcome.doc.pages[1].content = JStr(S("r1"))
  /\ outcome.doc.pages[2].content = JStr(S("r2"))

\* the title decoded in Phase 1 is absent or empty
NoTitle(raw) == Get(raw, "title") \in {Undefined, JStr(<<>>)}

RECURSIVE ConcatAll(_)
ConcatAll(q) == IF q = <<>> THEN <<>> ELSE Concat(q[1], ConcatAll(Tail(q)))

\* C13 as stated: the chunks, concatenated in order, equal the input text.
C13_ChunksEqualInput ==
  pc = "loop" => ConcatAll(chunks) = FullContent(rawData)

\* C13, amended: the chunks, concatenated in order, equal the input text
\* followed by one line break: every line of the input, the last included,
\* is in the chunks once, in its place, followed by a line break.
C13_ChunksEqualInputAndBreak ==
  pc = "loop" => ConcatAll(chunks) = Concat(FullContent(rawData), <<Run("\n", 1)>>)

\* a text of three lines was cut in more than one chunk, at a heading
C13_Witness ==
  /\ pc = "loop"
  /\ Len(lines) = 3
  /\ Len(chunks) >= 2
  /\ \E k \in 2..Len(chunks) : StartsWithHash(chunks[k])
  /\ chunks[1] # <<>>

(***************************************************************************)
(* Properties of robustJsonParse                                           *)
(***************************************************************************)

IsOpen(tok) == IsP(tok, "{") \/ IsP(tok, "[")
IsClose(tok) == IsP(tok, "}") \/ IsP(tok, "]")

\* how many objects and arrays are open after the first n tokens of t
Depth(t, n) ==
  Cardinality({k \in 1..n : IsOpen(t[k])}) - Cardinality({k \in 1..n : IsClose(t[k])})

\* the positions at which an element of the top-level array is complete
ElementEnds(t) == {k \in 1..Len(t) : IsP(t[k], "}") /\ Depth(t, k) = 2}

\* t has the array key, and stops after at least one complete element of
\* the array and before the array is closed
CutAfterElements(t) ==
  /\ \E k \in 1..Len(t) : IsStrTok(t[k], PagesKey)
  /\ ElementEnds(t) # {}
  /\ Depth(t, Len(t)) >= 2

\* the document of t cut after its last complete element and closed
Completed(t) ==
  LET from == CHOOSE k \in 1..Len(t) : IsP(t[k], "{") /\ \A j \in 1..(k - 1) : ~IsP(t[j], "{")
      to == CHOOSE k \in ElementEnds(t) : \A j \in ElementEnds(t) : j <= k
  IN  JsonParse(SubSeq(t, from, to) \o <<P("]"), P("}")>>).v

\* the array of the complete elements of t
CompleteElements(t) == Get(Completed(t), "pages")

\* C14: for an input whose array stops after N >= 1 complete elements and
\* before it is closed, robustJsonParse returns a value whose pages array
\* holds exactly those N elements.
C14_RecoversCompleteElements ==
  (pc = "decoded" /\ CutAfterElements(fullText)) =>
     /\ outcome.kind = "returned"
     /\ Get(outcome.doc, "pages") = CompleteElements(fullText)

\* the well-formed documents, and the texts that hold one of them in a fence
WellFormed == {t \in DecoderDocs : JsonParse(t).ok}
Wrappings(t) == {t, FencedJson(t), Fenced(t), FencedLine(t)}

\* C15: for a well-formed JSON text, bare or in a markdown fence with or
\* without the json tag, robustJsonParse returns exactly the value that
\* the parse of the bare text gives.
C15_WellFormedIsParsedExactly ==
  \A t \in WellFormed :
    (pc = "decoded" /\ fullText \in Wrappings(t)) => outcome = Returned(JsonParse(t).v)

HasPagesKey(t) == \E k \in 1..Len(t) : IsStrTok(t[k], PagesKey)

\* the first parse of the text, the fences stripped
DirectParse(t) == JsonParse(CleanString(t))

\* t is not well-formed, and has no complete element of the array or has
\* not the array key
NothingToRecover(t) ==
  /\ ~DirectParse(t).ok
  /\ ElementEnds(t) = {} \/ ~HasPagesKey(t)

\* C16: for an input that stops before any complete element of the array
\* exists, or a malformed input without the array key, robustJsonParse
\* throws, and what it throws is the error of the first parse.
C16_FirstErrorIsThrown ==
  (pc = "decoded" /\ NothingToRecover(fullText)) =>
     outcome = Threw(DirectParse(fullText).err)

\* a retry was made on a text cut after the last "}," and failed with an
\* error that is not the one of the first parse
C16_Witness ==
  /\ pc = "decoded"
  /\ NothingToRecover(fullText)
  /\ HasPagesKey(fullText)
  /\ LET cleanString == CleanString(fullText)
         lastPageEnd == LastIndexOfCloseComma(cleanString)
     IN  /\ lastPageEnd > IndexOfPages(cleanString)
         /\ ~JsonParse(Recovered(cleanString, lastPageEnd)).ok
         /\ JsonParse(Recovered(cleanString, lastPageEnd)).err # outcome.err
  /\ outcome.kind = "threw"

\* the text is among those handed to JSON.parse
Attempted(text, cleanString) ==
  \E k \in 1..Len(ParseAttempts(cleanString)) : ParseAttempts(cleanString)[k] = text

\* the cut after the last "}," gave no value: no "}," lies after the key,
\* or the parse of the text cut there failed
NoValueAtCloseComma(cleanString) ==
  \/ LastIndexOfCloseComma(cleanString) <= IndexOfPages(cleanString)
  \/ ~JsonParse(Recovered(cleanString, LastIndexOfCloseComma(cleanString))).ok

\* C17: when the first parse fails, the key is present, the cut after the
\* last "}," gave no value and a "}" lies after the key, the text cut after
\* the last "}" is parsed before robustJsonParse gives up.
C17_LastCloseIsAttempted ==
  LET cleanString == CleanString(fullText) IN
  (/\ pc = "decoded"
   /\ ~JsonParse(cleanString).ok
   /\ IndexOfPages(cleanString) # 0
   /\ NoValueAtCloseComma(cleanString)
   /\ LastIndexOfClose(cleanString) > IndexOfPages(cleanString))
  => Attempted(Recovered(cleanString, LastIndexOfClose(cleanString)), cleanString)

(***************************************************************************)
(* Properties of Phase 2 and of the progress reports                       *)
(***************************************************************************)

\* the response of a chunk stops after at least one complete page object
\* of processedPages and before the array is closed
CutAfterPages(resp) ==
  /\ resp.kind = "response"
  /\ \E k \in 1..Len(resp.text) : IsStrTok(resp.text[k], S("processedPages"))
  /\ ElementEnds(resp.text) # {}
  /\ Depth(resp.text, Len(resp.text)) >= 2

\* the pages of the complete page objects of text, numbered from offset
PagesOfComplete(a, offset) == [k \in 1..Len(a) |-> RefinedPage(a[k], offset + k - 1)]

\* C18: a chunk response whose processedPages array stops after N >= 1
\* complete page objects gives those N pages as refined pages of the chunk,
\* and no fallback page.
C18_CutResponseIsRecovered ==
  [][ (pc = "await" /\ pc' = "loop" /\ CutAfterPages(response')) =>
        LET a == Get(Completed(response'.text), "processedPages").a IN
        /\ refinedPages' = refinedPages \o PagesOfComplete(a, currentPageOffset)
        /\ origin' = origin \o [k \in 1..Len(a) |-> [chunk |-> i, fallback |-> FALSE]]
    ]_vars

\* One report for each chunk, made by the time its request is issued: in the
\* loop the reports after the first 60 are as many as the requests of Phase
\* 2, the request of the chunk in hand included, and the report of the
\* chunk of index k - 1 is 60 + round(40 * (k - 1) / n), n the number of chunks.
OneReportPerChunk ==
  (pc \in {"loop", "await"} \/ outcome.kind = "returned") =>
     /\ Cardinality(Phase2Requests) = (IF pc = "await" THEN i + 1 ELSE i)
     /\ Len(BeforeReturn) = 4 + StreamReports + Cardinality(Phase2Requests)
     /\ LoopReports = [k \in 1..Cardinality(Phase2Requests) |->
                         60 + Round(40 * (k - 1), Len(chunks))]
     /\ LoopReports # <<>> => LoopReports[1] = 60

\* C19 as stated: one report per chunk, made before its request, of value
\* 60 + round(40 * i / n); every report of the loop is below 100.
C19_LoopReportsBelowHundred ==
  /\ OneReportPerChunk
  /\ \A k \in 1..Len(LoopReports) : LoopReports[k] < 100

\* C19, amended: one report per chunk, made before its request, of value
\* 60 + round(40 * i / n); the first report of the loop is 60, and every
\* report of the loop is below 100 when there are fewer than 80 chunks and
\* at most 100 otherwise.
C19_LoopReports ==
  /\ OneReportPerChunk
  /\ \A k \in 1..Len(LoopReports) :
       /\ LoopReports[k] <= 100
       /\ Len(chunks) < 80 => LoopReports[k] < 100

\* the request of the last of at least 80 chunks is in flight, and the
\* report made before it is 100
C19_Witness ==
  /\ pc = "await"
  /\ Len(chunks) >= 80
  /\ i = Len(chunks) - 1
  /\ Len(LoopReports) = Len(chunks)
  /\ LoopReports[2] > 60
  /\ Last(LoopReports) = 100

\* C20: with a page count T > 0, the report made after each fragment of the
\* stream is 15 + min(45, round(45 * m / T)), m the number of page markers
\* in the text received so far; it never exceeds 60; and with T = 3, when
\* the fragments so far brought one marker each, it is 30, 45, 60.
C20_StreamReports ==
  [][ (pc = "stream" /\ nFrags' = nFrags + 1 /\ totalPages > 0) =>
        LET m == CountMarkers(fullText') IN
        /\ reports' = Append(reports, 15 + Min(45, Round(45 * m, totalPages)))
        /\ Last(reports') <= 60
        /\ (totalPages = 3 /\ m = nFrags' /\ m <= 3) =>
              Last(reports') = <<30, 45, 60>>[m]
    ]_vars

\* three pages, three fragments with one marker each, and the reports made
\* are 30, 45, 60 after the 5, 10, 15 of the start
C20_Witness ==
  /\ pc = "stream"
  /\ totalPages = 3
  /\ nFrags = 3
  /\ CountMarkers(fullText) = 3
  /\ reports = <<5, 10, 15, 30, 45, 60>>

\* C21: with a page count of 0 no report is made while the stream is read,
\* and the report that follows 15 is the 60 of the phase boundary; the
\* failure of the page count ends nothing: 10 is reported and the run goes
\* on, the fragments are gathered as they come, and the text is decoded.
C21_NoHintNoStreamReport ==
  [][/\ pc = "pageCount" =>
          /\ pc' = "images"
          /\ reports' = Append(reports, 10)
          /\ outcome' = outcome
     /\ (pc = "stream" /\ totalPages = 0) =>
          /\ reports = <<5, 10, 15>>
          /\ nFrags' = nFrags + 1 =>
               /\ reports' = reports
               /\ fullText' \o stream' = fullText \o stream
          /\ reports' # reports =>
               /\ reports' = <<5, 10, 15, 60>>
               /\ stream = <<>>
               /\ robustJsonParse(fullText).ok
               /\ pc' = "chunking" => rawData' = robustJsonParse(fullText).v]_vars

\* a run with a page count of 0, several fragments and several markers,
\* that returned a Document
C21_Witness ==
  /\ outcome.kind = "returned"
  /\ totalPages = 0
  /\ nFrags >= 2
  /\ CountMarkers(fullText) >= 2
  /\ SubSeq(reports, 1, 4) = <<5, 10, 15, 60>>
  /\ Last(reports) = 100

(***************************************************************************)
(* More properties of the chunker                                          *)
(***************************************************************************)

HeadingOrBlank(line) == StartsWithHash(line) \/ TrimIsEmpty(line)

\* the text begins with a heading line or a blank line
BeginsWithHeadingOrBlank(text) == HeadingOrBlank(Split(text)[1])

\* the text is empty or ends with a line break: it is made of whole lines
WholeLines(text) == text = <<>> \/ text[Len(text)].c = "\n"

\* One line is handled: a chunk is closed only when the buffer and the line
\* together exceed the ceiling and the line is a heading line or a blank
\* line, the chunk is the buffer and the new buffer starts with the line;
\* otherwise the line is appended to the buffer.  Buffer and chunks are made
\* of whole lines, and every chunk after the first begins with a heading
\* line or a blank line.
ClosesAtHeadingOrBlank ==
  /\ WholeLines(currentChunk') /\ \A k \in 1..Len(chunks') : WholeLines(chunks'[k])
  /\ \A k \in 2..Len(chunks') : BeginsWithHeadingOrBlank(chunks'[k])
  /\ (pc = "chunking" /\ lineIdx' = lineIdx + 1) =>
       LET line == lines[lineIdx] IN
       IF chunks' # chunks
       THEN /\ StrLen(currentChunk) + StrLen(line) > 15000
            /\ HeadingOrBlank(line)
            /\ chunks' = Append(chunks, currentChunk)
            /\ currentChunk' = line \o <<Run("\n", 1)>>
       ELSE /\ currentChunk' = Concat(Concat(currentChunk, line), <<Run("\n", 1)>>)
            /\ ~HeadingOrBlank(line) \/ StrLen(currentChunk) + StrLen(line) <= 15000

InFlight == pc \in {"stream", "await"}

\* C23: the requests of a run are one request of Phase 1, then one request
\* of Phase 2 for each chunk, in the order of the chunks; a request is
\* issued only when none is awaited, the one for a chunk only after the
\* round of the chunk before it ended; no request is issued twice, and none
\* after the run ended.
C23_RequestsInSequence ==
  [][/\ requests' # requests =>
          /\ ~InFlight
          /\ requests' = Append(requests, requests'[Len(requests')])
          /\ IF requests = <<>>
             THEN requests'[1].phase = 1
             ELSE /\ requests'[Len(requests')] =
                       [phase |-> 2, chunk |-> Len(requests) - 1, imageContext |-> <<>>]
                  /\ i = Len(requests) - 1
                  /\ Len(requests) <= Len(chunks)
     /\ \A j, k \in 1..Len(requests') : j < k => requests'[j] # requests'[k]
     /\ pc \in {"failed", "done", "hung"} => requests' = requests
     /\ outcome'.kind = "returned" => Len(requests') = 1 + Len(chunks')]_vars

\* a run that returned after three requests: the one of Phase 1 and those
\* of two chunks, of which the first threw
C23_Witness ==
  /\ outcome.kind = "returned"
  /\ Len(requests) = 3
  /\ Len(chunks) = 2
  /\ origin # <<>>
  /\ origin[1] = [chunk |-> 0, fallback |-> TRUE]

\* the positions of the pages that come from chunk n, refined or fallback
PagesFrom(n, fallback) ==
  {k \in 1..Len(origin) : origin[k] = [chunk |-> n, fallback |-> fallback]}

\* C24: the pages of one chunk are refined pages or one fallback page, never
\* both: no fallback page is added to a chunk that has refined pages.
C24_RefinedOrFallback ==
  \A n \in 0..(Len(chunks) - 1) :
    /\ Cardinality(PagesFrom(n, TRUE)) <= 1
    /\ PagesFrom(n, TRUE) = {} \/ PagesFrom(n, FALSE) = {}

\* C25: every Document returned by parsePdfToBook has at least one page.
C25_AtLeastOnePage ==
  outcome.kind = "returned" => Len(outcome.doc.pages) >= 1

(***************************************************************************)
(* More properties of the queue                                            *)
(***************************************************************************)

StatusOf(id) == {queue[k].status : k \in {j \in 1..Len(queue) : queue[j].id = id}}

Pending(id) == "PENDING" \in StatusOf(id)

\* the item is COMPLETED or in ERROR, or the queue no longer has it
Settled(id) == StatusOf(id) \subseteq {"COMPLETED", "ERROR"}

\* every invocation of processQueue ends with isProcessing false, and
\* isProcessing is true only while an invocation is on its way
WorkerResets ==
  /\ [][flights' # flights /\ flights' \subseteq flights => ~isProcessing']_vars
  /\ [](isProcessing <=> flights # {})
  /\ isProcessing ~> ~isProcessing

\* C26 as stated: every run of the worker ends with isProcessing false; and
\* when every invocation of the pipeline ends, every PENDING item that no
\* clearing removes becomes COMPLETED or ERROR.
C26_EveryPendingItemIsSettled ==
  /\ WorkerResets
  /\ \A id \in 1..MaxFiles : Pending(id) ~> Settled(id)

\* C26, amended: the same, provided items are not retried without end.
C26_PendingItemIsSettledUnlessRetriesGoOn ==
  /\ WorkerResets
  /\ \A id \in 1..MaxFiles :
       <>[][~RetryQueueItem]_vars => (Pending(id) ~> Settled(id))

\* the second item is COMPLETED after the first failed and the queue had
\* been cleared during an earlier run
C26_Witness ==
  /\ ~isProcessing
  /\ Len(queue) = 2
  /\ queue[1].status = "ERROR"
  /\ queue[2].status = "COMPLETED"
  /\ queue[1].id > 1

(***************************************************************************)
(* C27.  The life of a queue item.                                         *)
(***************************************************************************)

\* the positions of the item of that id in q (none, or one)
At(q, id) == {k \in 1..Len(q) : q[k].id = id}

StatusSteps ==
  {<<"PENDING", "PROCESSING">>, <<"PROCESSING", "COMPLETED">>,
   <<"PROCESSING", "ERROR">>, <<"ERROR", "PENDING">>}

\* the step is a retry of the item at position k and nothing else
IsRetryOf(k) ==
  /\ Len(queue') = Len(queue)
  /\ queue'[k] = [queue[k] EXCEPT !.status = "PENDING", !.progress = 0,
                                  !.error = Undefined]
  /\ \A j \in 1..Len(queue) : j # k => queue'[j] = queue[j]

Started == {f \in flights' : \A g \in flights : g.id # f.id}

\* the positions whose status the step sets to PROCESSING
SetToProcessing ==
  {k \in 1..Len(queue') :
     /\ queue'[k].status = "PROCESSING"
     /\ k <= Len(queue) => queue[k].status # "PROCESSING"}

\* C28: a step that starts an invocation starts one; its file is that of
\* the PENDING item of lowest position, and that item, at that position, is
\* the one item set to PROCESSING; no status is set to PROCESSING
\* otherwise; an item that stays in the queue keeps its position.
C28_LowestPendingFirst ==
  [][/\ \A f \in Started :
          /\ Started = {f}
          /\ \E k \in 1..Len(queue) :
               /\ queue[k].status = "PENDING"
               /\ \A j \in 1..(k - 1) : queue[j].status # "PENDING"
               /\ f.id = queue[k].id
               /\ f.fileName = queue[k].fileName
               /\ SetToProcessing = {k}
               /\ queue'[k].id = f.id
     /\ SetToProcessing # {} => Started # {}
     /\ \A id \in 1..MaxFiles :
          (At(queue, id) # {} /\ At(queue', id) # {}) =>
            At(queue', id) = At(queue, id)]_vars

\* the worker has taken a retried item that stands ahead of a COMPLETED item
\* and of a PENDING one
C28_Witness ==
  /\ Len(queue) = 3
  /\ queue[1].status = "PROCESSING"
  /\ queue[2].status = "COMPLETED"
  /\ queue[3].status = "PENDING"
  /\ \E f \in flights : f.id = queue[1].id /\ f.fileName = queue[1].fileName

(***************************************************************************)
(* The reader.  currentBook is the sequence book.pages, each page standing *)
(* for its number; it is empty while no book is open.  A render of         *)
(* BookReader makes the handlers that close over its currentPageIndex, and *)
(* its effect registers the key handler of that render: until the next     *)
(* render the keys are handled by the handler of the last one.  The        *)
(* updaters prev => prev + 1 and prev => prev - 1 are applied in the order *)
(* they are issued.  A click is a React event: the pending updates are     *)
(* rendered before it and its own update after it.                         *)
(***************************************************************************)

MaxBookPages == 4
MaxKeys == 3

\* openBook, and the first render of BookReader
OpenBook ==
  /\ appState = "DASHBOARD"
  /\ \E n \in 1..MaxBookPages : currentBook' = [k \in 1..n |-> k]
  /\ appState' = "READING"
  /\ currentPageIndex' = 0
  /\ shownPageIndex' = 0
  /\ keysSinceRender' = 0
  /\ UNCHANGED <<pipelineVars, queueVars>>

\* nextPage and prevPage of the render that has shown index shown
nextPage(shown, index) ==
  IF shown < Len(currentBook) - 1 THEN index + 1 ELSE index

prevPage(shown, index) ==
  IF shown > 0 THEN index - 1 ELSE index

\* a keydown event, handled by the handler of the last render, which
\* gives that index
KeyDown(index) ==
  /\ appState = "READING"
  /\ keysSinceRender < MaxKeys
  /\ currentPageIndex' = index
  /\ keysSinceRender' = keysSinceRender + 1
  /\ UNCHANGED <<appState, currentBook, shownPageIndex>>
  /\ UNCHANGED <<pipelineVars, queueVars>>

ArrowRight == KeyDown(nextPage(shownPageIndex, currentPageIndex))
ArrowLeft == KeyDown(prevPage(shownPageIndex, currentPageIndex))

\* the next render and its effect
Render ==
  /\ appState = "READING"
  /\ keysSinceRender > 0
  /\ currentPageIndex \in 0..(Len(currentBook) - 1)
  /\ shownPageIndex' = currentPageIndex
  /\ keysSinceRender' = 0
  /\ UNCHANGED <<appState, currentBook, currentPageIndex>>
  /\ UNCHANGED <<pipelineVars, queueVars>>

\* the next render reads chapterTitle of book.pages[currentPageIndex],
\* which is undefined: the render throws and the tree is unmounted
RenderThrows ==
  /\ appState = "READING"
  /\ keysSinceRender > 0
  /\ currentPageIndex \notin 0..(Len(currentBook) - 1)
  /\ appState' = "UNMOUNTED"
  /\ UNCHANGED <<currentBook, currentPageIndex, shownPageIndex, keysSinceRender>>
  /\ UNCHANGED <<pipelineVars, queueVars>>

\* a click on a button that the last render has not disabled, whose
\* handler gives that index
Click(index, disabledAt) ==
  /\ appState = "READING"
  /\ keysSinceRender = 0
  /\ shownPageIndex # disabledAt
  /\ currentPageIndex' = index
  /\ shownPageIndex' = currentPageIndex'
  /\ UNCHANGED <<appState, currentBook, keysSinceRender>>
  /\ UNCHANGED <<pipelineVars, queueVars>>

ClickNext == Click(nextPage(shownPageIndex, currentPageIndex), Len(currentBook) - 1)
ClickPrev == Click(prevPage(shownPageIndex, currentPageIndex), 0)

\* Escape, or the back button: backToDashboard unmounts the reader
OnBack ==
  /\ appState = "READING"
  /\ appState' = "DASHBOARD"
  /\ currentBook' = <<>>
  /\ currentPageIndex' = 0
  /\ shownPageIndex' = 0
  /\ keysSinceRender' = 0
  /\ UNCHANGED <<pipelineVars, queueVars>>

ReaderNext ==
  \/ OpenBook
  \/ ArrowRight
  \/ ArrowLeft
  \/ Render
  \/ RenderThrows
  \/ ClickNext
  \/ ClickPrev
  \/ OnBack

ReaderSpecInit == Init /\ scenario = "small"

SpecReader == ReaderSpecInit /\ [][ReaderNext]_vars

(***************************************************************************)
(* C29.  The page index of the reader.                                     *)
(***************************************************************************)

\* C29: while a book of at least one page is read, the current page index
\* is within 0 .. totalPages-1.
C29_IndexInRange ==
  appState = "READING" =>
    /\ Len(currentBook) >= 1
    /\ currentPageIndex \in 0..(Len(currentBook) - 1)

====
